---- MODULE Spec2Model ----
(***************************************************************************)
(* Model of service_monitor.py: the Supervisor (main), the Watch Loop      *)
(* (watch_services) and the rate-limited dispatcher                        *)
(* (trigger_github_workflow).                                              *)
(*                                                                         *)
(* Time is in whole seconds.  A string is a sequence of text pieces (""    *)
(* is <<>>), so that str.endswith is a real suffix test.  Python's None is *)
(* the empty sequence and a present environment value s is <<s>>.          *)
(***************************************************************************)
EXTENDS Integers, Sequences, FiniteSets, TLC

\* ------------------------------------------------------------------ bounds
\* Latest clock reading at which the stream is still pulled or a downstream
\* call is still awaited.
MaxClock == 540
\* Number of Watch Loop terminations the environment produces in one run.
MaxRestarts == 2

\* --------------------------------------------------------------- constants
DEBOUNCE_INTERVAL == 180
SLEEP_SECONDS == 5

None == <<>>
Some(s) == <<s>>

\* Mutant: only None is taken as unset.
TruthyNotNone(v) == v # None

\* Python truthiness of an environment value: None and "" are falsy.
Truthy(v) == v # None /\ v[1] # <<>>

\* Mutant: an absent value is formatted instead of defaulted.
OrEmptyFormatted(v) == IF v # None THEN v[1] ELSE <<"None">>

\* `v or ""`
OrEmpty(v) == IF Truthy(v) THEN v[1] ELSE <<>>

\* ------------------------------------------------------------ input domains
DeployFile == <<"deploy", ".yml">>
CiPath == <<".github/workflows/", "ci", ".yml">>
DeployPath == <<".github/workflows/", "deploy", ".yml">>
PreDeployPath == <<".github/workflows/", "pre-", "deploy", ".yml">>

WF(p, i) == [path |-> p, id |-> i]

\* What repo.get_workflows() may list.
Listings ==
    { <<>>,
      << WF(CiPath, 1), WF(DeployPath, 2) >>,
      << WF(PreDeployPath, 3), WF(DeployPath, 2) >> }

LoadBalancer == <<"LoadBalancer">>

\* spec is None for an object that carries no spec (a Status object).
Ev(t, s, n) == [type |-> t, spec |-> s, namespace |-> "default", name |-> n]


Events ==
    { Ev("ADDED", Some(LoadBalancer), "web"),
      Ev("MODIFIED", Some(LoadBalancer), "db"),
      Ev("DELETED", Some(LoadBalancer), "web"),
      Ev("BOOKMARK", Some(LoadBalancer), "web"),
      Ev("ERROR", Some(LoadBalancer), "db"),
      Ev("ADDED", Some(<<"ClusterIP">>), "web"),
      Ev("MODIFIED", Some(<<"NodePort">>), "db"),
      Ev("ERROR", None, "web") }

NoEvent == Ev("", None, "")

\* Seconds the loop blocks before the stream yields its next event.
Waits == {0, DEBOUNCE_INTERVAL - 1, DEBOUNCE_INTERVAL}
\* Seconds spent in get_repo / get_workflows before create_dispatch is called.
Delays == {0, DEBOUNCE_INTERVAL - 1}
\* The clock reading at process start.
StartClocks == {0, DEBOUNCE_INTERVAL}

VARIABLES
    GITHUB_TOKEN, GITHUB_REPO, WORKFLOW_FILE, TENANT, PROJECT,
    pc, exitCode, clock, restarts,
    last_trigger_global,
    event, outcome, ret, calls, log,
    current_time, workflows, sent, dispatched,
    ended, chainSucc,
    \* w.stream calls made by the current invocation of watch_services
    subscriptions,
    \* whether line 153 has been reached in this process
    seenQualifying

env == <<GITHUB_TOKEN, GITHUB_REPO, WORKFLOW_FILE, TENANT, PROJECT>>
locals == <<event, outcome, ret, calls, current_time, workflows, sent>>
vars == <<env, pc, exitCode, clock, restarts, last_trigger_global,
          locals, log, dispatched, ended, chainSucc, subscriptions,
          seenQualifying>>

\* ------------------------------------------------------------ pure helpers
\* str.endswith
EndsWith(s, suffix) ==
    /\ Len(suffix) <= Len(s)
    /\ SubSeq(s, Len(s) - Len(suffix) + 1, Len(s)) = suffix

\* Mutant: the last matching workflow is taken.
FindWorkflowLast(wfs, file) ==
    LET hits == {i \in 1..Len(wfs) : EndsWith(wfs[i].path, file)}
    IN  IF hits = {} THEN 0 ELSE CHOOSE i \in hits : \A j \in hits : i >= j

\* Lines 79-84: the index of the first workflow whose path ends with the
\* configured file name, 0 when there is none (workflow is None).
FindWorkflow(wfs, file) ==
    LET hits == {i \in 1..Len(wfs) : EndsWith(wfs[i].path, file)}
    IN  IF hits = {} THEN 0 ELSE CHOOSE i \in hits : \A j \in hits : i <= j

\* Mutants of the debounce test: never, boundary included, one second short.
DebouncedNever(time_since_last) == FALSE
DebouncedInclusive(time_since_last) == time_since_last <= DEBOUNCE_INTERVAL
DebouncedShort(time_since_last) == time_since_last < DEBOUNCE_INTERVAL - 1

\* Line 63: the debounce test.
Debounced(time_since_last) == time_since_last < DEBOUNCE_INTERVAL

\* Lines 91-94.
Inputs(tenant, project) == [team |-> OrEmpty(tenant), project |-> OrEmpty(project)]

\* Line 154.
ServiceKey(e) == <<e.namespace, "/", e.name>>

\* Lines 147 and 152: the events the Watch Loop hands to the dispatcher.
IsLoadBalancer(e) == e.spec[1] = LoadBalancer
RelevantAny(type) == TRUE
Relevant(type) == type \in {"ADDED", "MODIFIED", "DELETED"}

L(level, msg, arg) == [level |-> level, msg |-> msg, arg |-> arg]

\* How a downstream call may raise: "raise" is an exception with no (or a
\* falsy) `response` attribute, "raise_response" one whose `response` is truthy.
Raises == {"raise", "raise_response"}

\* The status code and text of the response carried by the exception that the
\* named call raises.
ErrorResponse(call) ==
    IF call = "get_repo" THEN <<404, "Not Found">>
    ELSE IF call = "get_workflows" THEN <<403, "Forbidden">>
    ELSE <<422, "Unprocessable">>

\* Lines 110-115 and 119-124: the lines logged for a caught exception, the
\* second only when the exception has a truthy `response`.
FailureLog(msg, how, call) ==
    << L("error", msg, <<>>) >> \o
    ( IF how = "raise_response"
      THEN << L("error", "GitHub API Response", ErrorResponse(call)) >>
      ELSE <<>> )

\* What the GitHub side does during one attempt: get_repo or get_workflows
\* raises, or get_workflows lists `workflows` and create_dispatch returns a bool
\* or raises; `delay` seconds pass before create_dispatch is called.
GH(rp, ls, wfs, ds, d) ==
    [repo |-> rp, list |-> ls, workflows |-> wfs, dispatch |-> ds, delay |-> d]

GitHubBehaviours ==
    { GH(how, "ok", <<>>, "true", d) : how \in Raises, d \in Delays } \cup
    { GH("ok", how, <<>>, "true", d) : how \in Raises, d \in Delays } \cup
    { GH("ok", "ok", ls[1], ls[2], d) :
        ls \in Listings \X ({"true", "false"} \cup Raises), d \in Delays }

\* The result of one run of trigger_github_workflow: its outcome, return value,
\* downstream calls made, log lines, the value of last_trigger_global after it,
\* the seconds it took and, when create_dispatch returned, the dispatch sent.
Result(o, r, c, lg, lt, el, wfs, snt) ==
    [ outcome |-> o, ret |-> r, calls |-> c, log |-> lg, last |-> lt,
      elapsed |-> el, workflows |-> wfs, sent |-> snt ]

\* Line 100-103: the create_dispatch call.
Dispatch(path, inputs, accepted) ==
    [path |-> path, ref |-> "main", inputs |-> inputs, accepted |-> accepted]

\* Mutant: the stored timestamp is a second early.
set_last_trigger_early(timestamp) == timestamp - 1

\* Mutant: the timestamp is not stored.
set_last_trigger_stale(timestamp) == last_trigger_global

\* Lines 28-31: the value last_trigger_global takes.
set_last_trigger(timestamp) == timestamp

\* Mutant: the skip line reports the seconds left of the window.
SkipLogRemaining(time_since_last) == DEBOUNCE_INTERVAL - time_since_last

\* Line 64: int(time_since_last), the number in "last trigger was N seconds
\* ago".  Clock readings are whole seconds here, which int() leaves as they are.
SkipLogValue(time_since_last) == time_since_last

trigger_github_workflow(repo, file, tenant, project, now, last, event_type, service_key, gh) ==
    IF ~Truthy(repo) THEN
        Result("ConfigurationMissing", FALSE, <<>>,
               << L("error", "GITHUB_REPO environment variable not set", <<>>) >>,
               last, 0, <<>>, <<>>)
    ELSE IF ~Truthy(file) THEN
        Result("ConfigurationMissing", FALSE, <<>>,
               << L("error", "WORKFLOW_FILE environment variable not set", <<>>) >>,
               last, 0, <<>>, <<>>)
    ELSE
    LET time_since_last == now - last
        connecting == L("info", "Connecting to GitHub repo", <<>>)
    IN
    IF Debounced(time_since_last) THEN
        Result("Debounced", FALSE, <<>>,
               << L("info", "Skipping workflow trigger due to debouncing",
                    <<service_key, SkipLogValue(time_since_last)>>) >>,
               last, 0, <<>>, <<>>)
    ELSE IF gh.repo \in Raises THEN
        Result("Failed", FALSE, <<"get_repo">>,
               << connecting >> \o
               FailureLog("Failed to trigger workflow", gh.repo, "get_repo"),
               last, gh.delay, <<>>, <<>>)
    ELSE IF gh.list \in Raises THEN
        Result("Failed", FALSE, <<"get_repo", "get_workflows">>,
               << connecting >> \o
               FailureLog("Failed to trigger workflow", gh.list, "get_workflows"),
               last, gh.delay, <<>>, <<>>)
    ELSE
    LET wfs == gh.workflows
        k == FindWorkflow(wfs, file[1])
        found == << connecting, L("info", "Found workflows", <<Len(wfs)>>) >> \o
                 [ i \in 1..Len(wfs) |->
                     L("info", "Available workflow", <<wfs[i].path, wfs[i].id>>) ]
    IN
    IF k = 0 THEN
        Result("JobNotFound", FALSE, <<"get_repo", "get_workflows">>,
               found \o << L("error", "Workflow not found in repository", <<>>) >>,
               last, gh.delay, wfs, <<>>)
    ELSE
    LET inputs == Inputs(tenant, project)
        trig == found \o
                << L("info", "Found matching workflow", <<wfs[k].path>>),
                   L("info", "Triggering workflow dispatch", <<wfs[k].path>>) >>
        all == <<"get_repo", "get_workflows", "create_dispatch">>
    IN
    IF gh.dispatch \in Raises THEN
        Result("DispatchFailure", FALSE, all,
               trig \o FailureLog("Failed to dispatch workflow", gh.dispatch,
                                  "create_dispatch"),
               last, gh.delay, wfs, <<>>)
    ELSE
        Result("Dispatched", TRUE, all,
               trig \o << L("info", "Successfully triggered workflow",
                            <<event_type, service_key>>) >>,
               set_last_trigger(now), gh.delay, wfs,
               << Dispatch(wfs[k].path, inputs, gh.dispatch = "true") >>)

\* Lines 144-157: one iteration of the Watch Loop on a well-formed event.
HandleEvent(token, repo, file, tenant, project, now, last, e, gh) ==
    IF ~IsLoadBalancer(e) THEN
        Result("Dropped", None, <<>>, <<>>, last, 0, <<>>, <<>>)
    ELSE
    LET seen == << L("info", "LoadBalancer service event", <<e.type, ServiceKey(e)>>) >>
    IN
    IF ~Relevant(e.type) THEN
        Result("Ignored", None, <<>>, seen, last, 0, <<>>, <<>>)
    ELSE IF ~Truthy(token) THEN
        Result("NoToken", None, <<>>,
               seen \o << L("error", "GITHUB_TOKEN environment variable not set", <<>>) >>,
               last, 0, <<>>, <<>>)
    ELSE
    LET r == trigger_github_workflow(repo, file, tenant, project, now, last,
                                     e.type, ServiceKey(e), gh)
    IN  [r EXCEPT !.ret = Some(r.ret), !.log = seen \o r.log]

\* Lines 159-161 and 174-177: the Watch Loop logs and re-raises, the Supervisor
\* logs.
RaisedLog ==
    << L("error", "Error watching services", <<>>),
       L("error", "Error in main loop", <<>>) >>

\* ------------------------------------------------------------------ actions
Token == Some(<<"ghp_token">>)
Repo == Some(<<"org/repo">>)
File == Some(DeployFile)
Team == Some(<<"platform">>)
Proj == Some(<<"edge">>)
Empty == Some(<<>>)

\* The environments the process is started in: GITHUB_TOKEN, GITHUB_REPO,
\* WORKFLOW_FILE, TENANT, PROJECT, each present, absent or empty.
Environments ==
    { <<Token, Repo, File, Team, Proj>>,
      <<Token, Repo, File, None, Empty>>,
      <<Token, None, File, Team, Proj>>,
      <<Token, Empty, File, Team, Proj>>,
      <<Token, Repo, None, Team, Proj>>,
      <<Token, Repo, Empty, Team, Proj>>,
      <<None, Repo, File, Team, Proj>>,
      <<Empty, Repo, File, Team, Proj>> }

Init ==
    /\ \E c \in Environments :
         /\ GITHUB_TOKEN = c[1]
         /\ GITHUB_REPO = c[2]
         /\ WORKFLOW_FILE = c[3]
         /\ TENANT = c[4]
         /\ PROJECT = c[5]
    /\ pc = "start"
    /\ exitCode = None
    /\ clock \in StartClocks
    /\ restarts = 0
    /\ last_trigger_global = 0
    /\ event = NoEvent
    /\ outcome = "None"
    /\ ret = None
    /\ calls = <<>>
    /\ log = <<>>
    /\ current_time = -1
    /\ workflows = <<>>
    /\ sent = <<>>
    /\ dispatched = <<>>
    /\ ended = "none"
    /\ chainSucc = 0
    /\ subscriptions = 0
    /\ seenQualifying = FALSE

\* A step that does not run the loop body: the handler variables, which
\* describe the run of the loop body made by the latest step, are cleared.
NoHandler ==
    /\ event' = NoEvent
    /\ outcome' = "None"
    /\ ret' = None
    /\ calls' = <<>>
    /\ current_time' = -1
    /\ workflows' = <<>>
    /\ sent' = <<>>
    /\ chainSucc' = 0

\* Mutant: the token check logs but does not exit.
MainNoExit ==
    /\ pc = "start"
    /\ log' = IF ~Truthy(GITHUB_TOKEN)
              THEN << L("error", "GITHUB_TOKEN environment variable must be set", <<>>) >>
              ELSE <<>>
    /\ exitCode' = exitCode
    /\ pc' = "connecting"
    /\ NoHandler
    /\ UNCHANGED <<env, clock, restarts, last_trigger_global, dispatched, ended,
                   subscriptions, seenQualifying>>

\* Lines 167-171: the startup token check.
Main ==
    /\ pc = "start"
    /\ IF ~Truthy(GITHUB_TOKEN)
       THEN /\ log' = << L("error", "GITHUB_TOKEN environment variable must be set", <<>>) >>
            /\ exitCode' = Some(1)
            /\ pc' = "exited"
       ELSE /\ log' = <<>>
            /\ exitCode' = exitCode
            /\ pc' = "connecting"
    /\ NoHandler
    /\ UNCHANGED <<env, clock, restarts, last_trigger_global, dispatched, ended,
                   subscriptions, seenQualifying>>

\* Mutant: the Watch Loop logs the exception and sets the watch up again
\* itself.
RaisedRetried ==
    /\ restarts' = restarts
    /\ log' = << L("error", "Error watching services", <<>>) >>
    /\ ended' = ended
    /\ pc' = "connecting"

\* The Watch Loop ends with an exception that the Supervisor catches.
Raised ==
    /\ restarts < MaxRestarts
    /\ restarts' = restarts + 1
    /\ log' = RaisedLog
    /\ ended' = "raised"
    /\ pc' = "sleeping"

\* Mutant: the trigger state is set up anew with each watch.
ConnectResetsState ==
    /\ pc = "connecting"
    /\ \/ /\ log' = << L("info", "Starting to watch LoadBalancer services...", <<>>) >>
          /\ pc' = "streaming"
          /\ subscriptions' = subscriptions + 1
          /\ UNCHANGED <<restarts, ended>>
       \/ Raised /\ subscriptions' = subscriptions
    /\ last_trigger_global' = 0
    /\ NoHandler
    /\ UNCHANGED <<env, exitCode, clock, dispatched, seenQualifying>>

\* Lines 131-141: load the cluster configuration and set up the watch.
Connect ==
    /\ pc = "connecting"
    /\ \/ /\ \E how \in {"incluster", "kubeconfig"} :
                log' = << L("info", "Starting to watch LoadBalancer services...", <<>>) >>
          /\ pc' = "streaming"
          /\ subscriptions' = subscriptions + 1
          /\ UNCHANGED <<restarts, ended>>
       \/ Raised /\ subscriptions' = subscriptions
    /\ NoHandler
    /\ UNCHANGED <<env, exitCode, clock, last_trigger_global, dispatched,
                   seenQualifying>>

\* The results the loop body can have on event e at time `now`: one when it
\* makes no downstream call, else one per behaviour of the GitHub side.
Handled(now, e) ==
    LET run(gh) == HandleEvent(GITHUB_TOKEN, GITHUB_REPO, WORKFLOW_FILE, TENANT,
                               PROJECT, now, last_trigger_global, e, gh)
        quiet == run(GH("ok", "ok", <<>>, "true", 0))
    IN  IF quiet.calls = <<>> THEN {quiet} ELSE {run(gh) : gh \in GitHubBehaviours}

\* Lines 143-157: the stream yields an event after `w` seconds and the loop
\* body handles it.
StreamEvent ==
    /\ pc = "streaming"
    /\ \E w \in Waits, e \in Events :
         LET now == clock + w IN
         /\ e.spec # None
         /\ \E r \in Handled(now, e) :
            LET timed == r.outcome \notin {"Dropped", "Ignored", "NoToken",
                                           "ConfigurationMissing"}
                inChain == current_time >= 0 /\ now - current_time < DEBOUNCE_INTERVAL
            IN
            /\ now + r.elapsed <= MaxClock
            /\ event' = e
            /\ outcome' = r.outcome
            /\ ret' = r.ret
            /\ calls' = r.calls
            /\ log' = r.log
            /\ workflows' = r.workflows
            /\ last_trigger_global' = r.last
            /\ sent' = r.sent
            /\ dispatched' =
                 IF r.outcome = "Dispatched"
                 THEN Append(dispatched, [admitted |-> now, at |-> now + r.elapsed,
                                          key |-> ServiceKey(e)])
                 ELSE dispatched
            /\ clock' = now + r.elapsed
            /\ current_time' = IF timed THEN now ELSE -1
            /\ chainSucc' = IF ~timed THEN 0
                            ELSE (IF inChain THEN chainSucc ELSE 0)
                                 + (IF r.outcome = "Dispatched" /\ r.sent[1].accepted
                                    THEN 1 ELSE 0)
            /\ seenQualifying' =
                 (seenQualifying \/ r.outcome \notin {"Dropped", "Ignored"})
    /\ UNCHANGED <<env, pc, exitCode, restarts, ended, subscriptions>>

\* Line 147 on an object without a spec: AttributeError, caught at line 159.
StreamMalformed ==
    /\ pc = "streaming"
    /\ \E w \in Waits, e \in Events :
         /\ e.spec = None
         /\ clock + w <= MaxClock
         /\ clock' = clock + w
         /\ event' = e
    /\ outcome' = "Raised"
    /\ ret' = None
    /\ calls' = <<>>
    /\ Raised
    /\ current_time' = -1
    /\ workflows' = <<>>
    /\ sent' = <<>>
    /\ chainSucc' = 0
    /\ UNCHANGED <<env, exitCode, last_trigger_global, dispatched,
                   subscriptions, seenQualifying>>

\* The subscription fails (on opening it or while iterating).
StreamRaise ==
    /\ pc = "streaming"
    /\ Raised
    /\ NoHandler
    /\ UNCHANGED <<env, exitCode, clock, last_trigger_global, dispatched,
                   subscriptions, seenQualifying>>

\* The stream ends without error: watch_services returns and line 171 calls it
\* again.
StreamEnd ==
    /\ pc = "streaming"
    /\ restarts < MaxRestarts
    /\ restarts' = restarts + 1
    /\ ended' = "returned"
    /\ log' = <<>>
    /\ pc' = "connecting"
    /\ subscriptions' = 0
    /\ NoHandler
    /\ UNCHANGED <<env, exitCode, clock, last_trigger_global, dispatched,
                   seenQualifying>>

\* Mutants: the Supervisor restarts at once; the Supervisor gives up.
SleepSkipped ==
    /\ pc = "sleeping"
    /\ clock' = clock
    /\ log' = <<>>
    /\ pc' = "connecting"
    /\ subscriptions' = 0
    /\ NoHandler
    /\ UNCHANGED <<env, exitCode, restarts, last_trigger_global, dispatched, ended,
                   seenQualifying>>

SleepGivesUp ==
    /\ pc = "sleeping"
    /\ clock' = clock + SLEEP_SECONDS
    /\ log' = <<>>
    /\ pc' = "exited"
    /\ subscriptions' = 0
    /\ NoHandler
    /\ UNCHANGED <<env, exitCode, restarts, last_trigger_global, dispatched, ended,
                   seenQualifying>>

\* Line 177.
Sleep ==
    /\ pc = "sleeping"
    /\ clock' = clock + SLEEP_SECONDS
    /\ log' = <<>>
    /\ pc' = "connecting"
    /\ subscriptions' = 0
    /\ NoHandler
    /\ UNCHANGED <<env, exitCode, restarts, last_trigger_global, dispatched, ended,
                   seenQualifying>>

Next ==
    \/ Main
    \/ Connect
    \/ StreamEvent
    \/ StreamMalformed
    \/ StreamRaise
    \/ StreamEnd
    \/ Sleep

Spec == Init /\ [][Next]_vars

\* The process keeps running: a sleep ends, a call of watch_services is made.
FairSpec == Spec /\ WF_vars(Sleep) /\ WF_vars(Connect) /\ WF_vars(Main)

\* ------------------------------------------------------------------- claims
W == DEBOUNCE_INTERVAL

\* A qualifying event: a LoadBalancer service, added, modified or deleted.
Qualifies(e) ==
    /\ e.spec = Some(LoadBalancer)
    /\ e.type \in {"ADDED", "MODIFIED", "DELETED"}

Unset(v) == v = None \/ v = Some(<<>>)

Configured == ~Unset(GITHUB_REPO) /\ ~Unset(WORKFLOW_FILE)

ErrorLogged == \E i \in 1..Len(log) : log[i].level = "error"

\* The dispatches recorded (create_dispatch returned) before the event just
\* handled.
Earlier ==
    IF outcome = "Dispatched" THEN 1..(Len(dispatched) - 1) ELSE 1..Len(dispatched)

\* C1, as claimed: a chain of qualifying events, each less than W after the
\* one before it, holds at most one successful dispatch (chainSucc counts the
\* dispatches of the chain that GitHub accepted).
C1_AsClaimed == chainSucc <= 1

\* The event handled by the step reached the rate limiter less than W after the
\* event before it did.
ChainStep ==
    /\ current_time >= 0
    /\ current_time' >= 0
    /\ current_time' - current_time < W

\* C1, amended: in a chain of qualifying events, each less than W after the
\* one before it, what suppresses an event is the recorded trigger time
\* (last_trigger_global, the reading of the latest dispatch call that
\* returned), not the event before it: an event less than W after the recorded
\* time is skipped as debounced with no downstream call and the recorded time
\* stays, an event W or more after it is attempted.  The chain may so hold
\* several dispatches, any two of them admitted at least W apart.
C1_Amended ==
    /\ [][ChainStep =>
            /\ outcome' = "Debounced" <=> current_time' - last_trigger_global < W
            /\ outcome' = "Debounced" =>
                  /\ calls' = <<>>
                  /\ ret' = Some(FALSE)
                  /\ last_trigger_global' = last_trigger_global
                  /\ dispatched' = dispatched
            /\ outcome' # "Debounced" =>
                  /\ calls' # <<>>
                  /\ calls'[1] = "get_repo"]_vars
    /\ [](current_time >= 0 =>
            Cardinality({i \in 1..Len(dispatched) :
                           dispatched[i].admitted > current_time - W}) <= 1)

\* C1 witness: a chain in which the event after an accepted dispatch was
\* skipped and a later event of the chain was dispatched and accepted too.
C1_Witness ==
    /\ chainSucc = 2
    /\ outcome = "Dispatched"
    /\ Len(dispatched) = 2
    /\ current_time - dispatched[1].admitted < 2 * W

\* C2: last_trigger_global changes only in a step in which create_dispatch
\* returned, every such step sets it to that run's current_time, and every other
\* outcome of a step leaves it as it was.
C2_TriggerStateFrame ==
    [][ /\ last_trigger_global' # last_trigger_global =>
              /\ sent' # <<>>
              /\ calls' = <<"get_repo", "get_workflows", "create_dispatch">>
        /\ sent' # <<>> =>
              /\ last_trigger_global' = current_time'
              /\ last_trigger_global' > last_trigger_global
        /\ outcome' \in {"None", "Raised", "Dropped", "Ignored", "NoToken",
                         "ConfigurationMissing", "Debounced", "Failed",
                         "JobNotFound", "DispatchFailure"} =>
              last_trigger_global' = last_trigger_global
      ]_vars

\* C2 witness: create_dispatch raised after an earlier dispatch had succeeded,
\* and the recorded time is still that dispatch's.
C2_Witness ==
    /\ outcome = "DispatchFailure"
    /\ Len(dispatched) = 1
    /\ last_trigger_global = dispatched[1].admitted

\* C3: downstream calls are made only while handling a qualifying event; any
\* other event makes none and leaves the trigger state as it was.
C3_OnlyQualifyingEvents ==
    [][ /\ calls' # <<>> => Qualifies(event')
        /\ event' # NoEvent /\ ~Qualifies(event') =>
              /\ calls' = <<>>
              /\ sent' = <<>>
              /\ last_trigger_global' = last_trigger_global
              /\ dispatched' = dispatched
      ]_vars

\* C3 witness: a BOOKMARK event of a LoadBalancer service was handled, in a
\* configured process, at a time the rate limiter would admit a dispatch.
C3_Witness ==
    /\ event.type = "BOOKMARK"
    /\ event.spec = Some(LoadBalancer)
    /\ Configured
    /\ clock - last_trigger_global >= W

\* C4: a qualifying event evaluated at `now` is skipped, with no downstream
\* call, iff now - t_last < W, and attempted otherwise; t_last is the value
\* recorded before the event.
C4_RateLimitBoundary ==
    [][ event' # NoEvent /\ current_time' >= 0 =>
          /\ outcome' = "Debounced" <=> current_time' - last_trigger_global < W
          /\ outcome' = "Debounced" => calls' = <<>>
          /\ outcome' # "Debounced" => calls' # <<>>
      ]_vars

\* C4 witness: a dispatch was admitted exactly W after the one before it.
C4_Witness ==
    /\ Len(dispatched) = 2
    /\ dispatched[2].admitted = dispatched[1].admitted + W

\* C5: any two successful dispatches of a run were admitted at least W apart,
\* whichever services their events concern.
C5_OnePerWindow ==
    \A i, j \in 1..Len(dispatched) :
        i < j => dispatched[j].admitted - dispatched[i].admitted >= W

\* C5 witness: two successful dispatches for two different services.
C5_Witness ==
    /\ Len(dispatched) >= 2
    /\ dispatched[1].key # dispatched[2].key

MainLoopErrorLogged ==
    \E i \in 1..Len(log') : log'[i] = L("error", "Error in main loop", <<>>)

\* C6, as claimed: every end of the Watch Loop is logged by the Supervisor and
\* followed by the 5-second delay, and watch_services is called again only at
\* the end of that delay.
C6_AsClaimed ==
    [][ /\ restarts' # restarts => pc' = "sleeping" /\ MainLoopErrorLogged
        /\ pc' = "connecting" /\ pc # "start" =>
              pc = "sleeping" /\ clock' - clock = SLEEP_SECONDS
      ]_vars

\* C6, amended: when watch_services raises, the Supervisor logs the error and
\* calls it again only after the 5-second delay; when it returns because the
\* stream ended, the Supervisor logs nothing and calls it again at once.
C6_Amended ==
    [][ /\ restarts' # restarts /\ ended' = "raised" =>
              pc' = "sleeping" /\ MainLoopErrorLogged
        /\ restarts' # restarts /\ ended' = "returned" =>
              pc' = "connecting" /\ clock' = clock /\ log' = <<>>
        /\ pc = "sleeping" =>
              pc' = "connecting" /\ clock' - clock = SLEEP_SECONDS
        /\ pc' = "connecting" /\ pc # "start" =>
              \/ pc = "sleeping" /\ ended = "raised"
              \/ pc = "streaming" /\ ended' = "returned"
      ]_vars

\* C6 witness: the Watch Loop raised and, after the delay, streams again.
C6_Witness == ended = "raised" /\ pc = "streaming" /\ clock >= SLEEP_SECONDS

\* C7: after the token check every end of the Watch Loop is followed by a new
\* call of watch_services, which runs: the Supervisor never stops retrying.
C7_AlwaysRetried ==
    /\ (pc = "sleeping") ~> (pc = "connecting")
    /\ (pc = "connecting") ~> (pc \in {"streaming", "sleeping"})
    /\ [][restarts' # restarts => pc' \in {"sleeping", "connecting"}]_vars
    /\ [][pc' = "exited" => pc = "start"]_vars

\* C7 witness: watch_services is being called again after it raised.
C7_Witness == pc = "connecting" /\ ended = "raised" /\ restarts >= 1

\* The dispatch attempt of the event just handled failed.
FailedDispatch == calls # <<>> /\ (sent = <<>> \/ ~sent[1].accepted)

\* C8, as claimed: a failed dispatch, a rejected dispatch call included, returns
\* False, leaves the Watch Loop streaming and the trigger state as it was, is
\* not retried for the same event, and the next qualifying event is attempted.
C8_AsClaimed ==
    [][ /\ FailedDispatch' =>
              /\ ret' = Some(FALSE)
              /\ pc' = "streaming"
              /\ exitCode' = None
              /\ last_trigger_global' = last_trigger_global
              /\ Len(calls') = Cardinality({calls'[i] : i \in 1..Len(calls')})
        /\ FailedDispatch /\ Qualifies(event') => calls' # <<>>
      ]_vars

\* C9: with GITHUB_REPO or WORKFLOW_FILE unset or empty, every qualifying event
\* ends in ConfigurationMissing: False is returned, no downstream call is made,
\* the trigger state stays zero and the Watch Loop goes on.
C9_ConfigurationMissing ==
    ~Configured =>
        /\ last_trigger_global = 0
        /\ dispatched = <<>>
        /\ calls = <<>>
        /\ Qualifies(event) =>
              /\ outcome = "ConfigurationMissing"
              /\ ret = Some(FALSE)
              /\ pc = "streaming"
              /\ ErrorLogged

\* C9 witness: a qualifying event handled with an empty GITHUB_REPO, at a time
\* the rate limiter would admit a dispatch.
C9_Witness ==
    /\ GITHUB_REPO = Some(<<>>)
    /\ Qualifies(event)
    /\ outcome = "ConfigurationMissing"
    /\ clock >= W

Absent(v) == v = None

\* C10, as claimed: with TENANT or PROJECT absent a qualifying event is a no-op:
\* no downstream dispatch is made and the trigger state is unchanged.
C10_AsClaimed ==
    Absent(TENANT) \/ Absent(PROJECT) =>
        /\ sent = <<>>
        /\ \A i \in 1..Len(calls) : calls[i] # "create_dispatch"
        /\ last_trigger_global = 0

\* C10, amended: TENANT and PROJECT are optional.  A value that is absent or
\* empty is sent as the empty string in the dispatch inputs, a present one as it
\* is; the dispatch is made and recorded as with both set, and no error is
\* logged.
C10_Amended ==
    /\ sent # <<>> =>
          sent[1].inputs =
              [ team |-> IF Unset(TENANT) THEN <<>> ELSE TENANT[1],
                project |-> IF Unset(PROJECT) THEN <<>> ELSE PROJECT[1] ]
    /\ outcome = "Dispatched" =>
          /\ sent # <<>>
          /\ last_trigger_global = current_time
          /\ ~ErrorLogged

\* C10 witness: a dispatch made and recorded with TENANT absent.
C10_Witness ==
    /\ Absent(TENANT)
    /\ outcome = "Dispatched"
    /\ sent[1].inputs.team = <<>>
    /\ last_trigger_global = current_time

\* C11, as claimed: every event the stream delivers, a malformed one included,
\* is either classified as a qualifying event or dropped with no side effect,
\* and the Watch Loop stays in Streaming, in the same invocation, to take the
\* next event.
C11_AsClaimed ==
    [][ event' # NoEvent =>
          /\ pc' = "streaming"
          /\ restarts' = restarts
          /\ ended' = ended
          /\ \/ Qualifies(event')
             \/ /\ calls' = <<>>
                /\ last_trigger_global' = last_trigger_global
                /\ dispatched' = dispatched
      ]_vars

\* C12, as claimed: the first qualifying event of the process, in a configured
\* process, passes the rate limiter and leads to a dispatch attempt, whatever
\* the clock reads when it arrives.
C12_AsClaimed ==
    [][ ~seenQualifying /\ seenQualifying' /\ Configured =>
          /\ last_trigger_global = 0
          /\ outcome' # "Debounced"
          /\ calls' # <<>>
      ]_vars

\* The listing was obtained: the run got as far as resolving the job.
Listed == outcome \in {"JobNotFound", "DispatchFailure", "Dispatched"}

\* The jobs named in a "Triggering workflow dispatch" line of the run just made.
Selected ==
    { log[i].arg[1] :
        i \in {j \in 1..Len(log) : log[j].msg = "Triggering workflow dispatch"} }

DispatchCalls == {i \in 1..Len(calls) : calls[i] = "create_dispatch"}

\* C13: of the jobs listed, in listing order, the first whose path ends with
\* WORKFLOW_FILE is selected and create_dispatch is called once, on that job; a
\* job whose path does not end with it is never selected; with no match the
\* outcome is JobNotFound, with no dispatch call and the trigger state as it was.
C13_JobResolution ==
    /\ [](Listed =>
            LET file == WORKFLOW_FILE[1]
                hits == {k \in 1..Len(workflows) : EndsWith(workflows[k].path, file)}
            IN  /\ outcome = "JobNotFound" <=> hits = {}
                /\ hits = {} =>
                      /\ Selected = {}
                      /\ DispatchCalls = {}
                      /\ sent = <<>>
                      /\ ret = Some(FALSE)
                /\ hits # {} =>
                      \E k \in hits :
                        /\ \A j \in 1..(k - 1) : ~EndsWith(workflows[j].path, file)
                        /\ Selected = {workflows[k].path}
                        /\ Cardinality(DispatchCalls) = 1
                        /\ sent # <<>> => sent[1].path = workflows[k].path)
    /\ [][outcome' = "JobNotFound" =>
            /\ last_trigger_global' = last_trigger_global
            /\ dispatched' = dispatched]_vars

\* C13 witness: two listed jobs end with WORKFLOW_FILE and the one listed first
\* was dispatched.
C13_Witness ==
    /\ outcome = "Dispatched"
    /\ workflows = << WF(PreDeployPath, 3), WF(DeployPath, 2) >>
    /\ sent[1].path = PreDeployPath

\* C14: with GITHUB_TOKEN absent (unset or empty) main exits with status 1 at
\* the token check: no subscription is opened, no event handled, no dispatch
\* attempted; with the token set the process never exits and has no status.
C14_TokenCheck ==
    /\ Unset(GITHUB_TOKEN) =>
          /\ pc \in {"start", "exited"}
          /\ pc = "exited" => exitCode = Some(1)
          /\ subscriptions = 0
          /\ restarts = 0
          /\ event = NoEvent
          /\ calls = <<>>
          /\ dispatched = <<>>
    /\ ~Unset(GITHUB_TOKEN) => exitCode = None /\ pc # "exited"

\* C14 witness: the process has exited with status 1, GITHUB_TOKEN being unset.
C14_Witness == pc = "exited" /\ exitCode = Some(1) /\ GITHUB_TOKEN = None

\* C15: an invocation of watch_services opens at most one subscription, and
\* only from Connecting; an exception while connecting or streaming ends the
\* invocation: it is logged by the Watch Loop, reaches the Supervisor, and
\* the Watch Loop does not go on to connect or stream by itself.
C15_NoInternalRetry ==
    /\ [](/\ subscriptions <= 1
          /\ pc = "streaming" => subscriptions = 1
          /\ pc = "connecting" => subscriptions = 0)
    /\ [][subscriptions' > subscriptions =>
            pc = "connecting" /\ pc' = "streaming" /\ restarts' = restarts]_vars
    /\ [][ended' = "raised" /\ restarts' # restarts =>
            /\ pc \in {"connecting", "streaming"}
            /\ pc' = "sleeping"
            /\ restarts' = restarts + 1
            /\ log'[1] = L("error", "Error watching services", <<>>)
            /\ log'[2] = L("error", "Error in main loop", <<>>)]_vars
    /\ [][(pc \in {"connecting", "streaming"} /\ pc' \notin {"connecting", "streaming"})
            => (ended' = "raised" /\ restarts' = restarts + 1)]_vars

\* C15 witness: the subscription of an invocation failed while streaming and
\* the Supervisor holds the error, with no second subscription opened.
C15_Witness == pc = "sleeping" /\ subscriptions = 1 /\ ended = "raised"

\* The number in the skip line of the run just made.
Skipped == log[Len(log)].arg[2]

\* C16, as claimed: when the rate limiter suppresses a qualifying event, the
\* value logged is the time left of the window, W - (now - t_last); stated for
\* the events suppressed after a dispatch.
C16_AsClaimed ==
    outcome = "Debounced" /\ dispatched # <<>> =>
        Skipped = W - (current_time - last_trigger_global)

\* C16, amended: the value logged is the time elapsed since the recorded
\* trigger time, now - t_last in whole seconds, for the service of the event.
C16_Amended ==
    outcome = "Debounced" =>
        /\ log[Len(log)].msg = "Skipping workflow trigger due to debouncing"
        /\ log[Len(log)].level = "info"
        /\ log[Len(log)].arg[1] = ServiceKey(event)
        /\ Skipped = current_time - last_trigger_global
        /\ 0 <= Skipped /\ Skipped < W

\* C16 witness: an event skipped W - 1 seconds after a dispatch, with one
\* second of the window left.
C16_Witness ==
    /\ outcome = "Debounced"
    /\ dispatched # <<>>
    /\ current_time - last_trigger_global = W - 1
    /\ Skipped = W - 1

\* C17, as claimed: the instants at which create_dispatch is called for any two
\* successful dispatches are at least W apart.
C17_AsClaimed ==
    \A i, j \in 1..Len(dispatched) :
        i < j => dispatched[j].at - dispatched[i].at >= W

\* C17, amended: create_dispatch is called at least W after the rate-limit
\* decision of every earlier successful dispatch; it may follow the earlier
\* call itself by less than W, short by at most the time the earlier run spent
\* between its decision and its call.
C17_Amended ==
    \A i, j \in 1..Len(dispatched) :
        i < j =>
          /\ dispatched[j].at >= dispatched[i].admitted + W
          /\ dispatched[j].at - dispatched[i].at
                >= W - (dispatched[i].at - dispatched[i].admitted)

\* C17 witness: two successful dispatches whose create_dispatch calls are less
\* than W apart, the first having been slow to connect.
C17_Witness ==
    /\ Len(dispatched) >= 2
    /\ dispatched[1].at > dispatched[1].admitted
    /\ dispatched[2].at - dispatched[1].at < W

\* C18: no step of a restart (the Watch Loop ending, the Supervisor's delay,
\* setting the watch up again) changes last_trigger_global, so after a restart
\* a qualifying event less than W after the recorded dispatch is debounced,
\* with no downstream call.
C18_StateSurvivesRestart ==
    /\ [][(restarts' # restarts \/ pc \in {"sleeping", "connecting"})
            => last_trigger_global' = last_trigger_global]_vars
    /\ [](restarts >= 1 /\ current_time >= 0 /\ dispatched # <<>> =>
            /\ last_trigger_global = dispatched[Len(dispatched)].admitted
            /\ (\E i \in Earlier : current_time - dispatched[i].admitted < W)
                  => outcome = "Debounced" /\ calls = <<>>)

\* C18 witness: an ADDED event is debounced SLEEP_SECONDS after a dispatch: the
\* Watch Loop failed right after the dispatch, the Supervisor slept and the
\* new subscription delivered the event at once.
C18_Witness ==
    /\ restarts >= 1
    /\ ended = "raised"
    /\ event.type = "ADDED"
    /\ outcome = "Debounced"
    /\ dispatched # <<>>
    /\ current_time = dispatched[Len(dispatched)].at + SLEEP_SECONDS

\* C19, as claimed: last_trigger_global is never above the clock, never
\* decreases, starts at 0 and changes only to the clock reading taken at the
\* rate-limit decision of a dispatch that succeeded in that step, which every
\* successful dispatch does: it is 0 or the reading of the most recent
\* successful dispatch.
C19_AsClaimed ==
    /\ [](0 <= last_trigger_global /\ last_trigger_global <= clock)
    /\ [](dispatched = <<>> => last_trigger_global = 0)
    /\ [][last_trigger_global' >= last_trigger_global]_vars
    /\ [][last_trigger_global' # last_trigger_global =>
            /\ sent' # <<>>
            /\ sent'[1].accepted
            /\ last_trigger_global' = current_time']_vars
    /\ [][(sent' # <<>> /\ sent'[1].accepted)
            => last_trigger_global' = current_time']_vars

====
